---- MODULE Spec2Model ----
(***************************************************************************)
(* Model of the error boundary of the service crate                        *)
(* (crates/service/src/error.rs): the closed Error enum, the adapters that *)
(* convert subsystem errors into it, Error::code, Error::log, and the two  *)
(* exit edges (ErrorExtensions::extend and From<Error> for ErrorResponse). *)
(*                                                                         *)
(* Texts are TLA+ strings; Len, \o and SubSeq act on them character by     *)
(* character, so formatting and substring containment are computed.        *)
(***************************************************************************)
EXTENDS Integers, Sequences, FiniteSets, TLC

VARIABLES origin, err, moved, extends, log, resp, gql, prev

vars == <<origin, err, moved, extends, log, resp, gql, prev>>

----------------------------------------------------------------------------
(* Bounds *)

\* longest text drawn for a detail / message / inner error text
MaxDetailLen == 2
\* how many times one flow calls extend(&self) on the same value
MaxExtend == 2
\* largest byte offset reported by a base64 DecodeError
MaxOffset == 1

Alphabet == {"s", "e"}

RECURSIVE TextsUpTo(_)
TextsUpTo(n) ==
    IF n = 0 THEN {""}
    ELSE LET S == TextsUpTo(n - 1) IN S \cup {t \o c : t \in S, c \in Alphabet}

Texts == TextsUpTo(MaxDetailLen)

\* Option<T>
None == <<>>
Some(x) == <<x>>
IsSome(o) == Len(o) = 1
Unwrap(o) == o[1]

\* str::contains
Contains(s, d) ==
    \E i \in 1..(Len(s) - Len(d) + 1) : SubSeq(s, i, i + Len(d) - 1) = d

RECURSIVE DecStr(_)
\* Display of an unsigned integer
DecStr(n) ==
    IF n < 10 THEN SubSeq("0123456789", n + 1, n + 1)
    ELSE DecStr(n \div 10) \o SubSeq("0123456789", (n % 10) + 1, (n % 10) + 1)

----------------------------------------------------------------------------
(* enum Error *)

UnitVariants ==
    {"Unauthenticated", "Unauthorized", "CredentialsInvalid",
     "HandleAlreadyExists", "JwtMalformed", "JwtExpired", "JwtInvalid",
     "WsInitNotObject", "WsInitTokenNotString", "NotImplemented"}

DetailVariants == {"ServerMisconfigured", "InternalServerError"}

Unit(v) == [tag |-> v]
ServerMisconfigured(d) == [tag |-> "ServerMisconfigured", detail |-> d]
InternalServerError(d) == [tag |-> "InternalServerError", detail |-> d]

HasDetail(e) == e.tag \in DetailVariants

\* the values service code can build directly from a variant
Error ==
    {Unit(v) : v \in UnitVariants}
        \cup {ServerMisconfigured(d) : d \in Texts}
        \cup {InternalServerError(d) : d \in Texts}

\* Display with the detail appended to the template of the two
\* detail-carrying variants
Display_WithDetail(e) ==
    CASE e.tag = "ServerMisconfigured" -> "The server is misconfigured: " \o e.detail
      [] e.tag = "InternalServerError" ->
            "An internal server error occurred: " \o e.detail
      [] e.tag = "CredentialsInvalid" -> "Credentials are invalid"
      [] e.tag = "HandleAlreadyExists" -> "Handle already exists"
      [] e.tag = "JwtMalformed" -> "JWT is malformed"
      [] e.tag = "JwtExpired" -> "JWT is expired"
      [] e.tag = "JwtInvalid" -> "JWT is invalid"
      [] e.tag = "WsInitNotObject" ->
            "GraphQL WebSocket init must be an object, null, or undefined"
      [] e.tag = "WsInitTokenNotString" ->
            "GraphQL WebSocket init 'token' must be a string or undefined"
      [] e.tag = "NotImplemented" -> "Feature is not implemented yet"
      [] OTHER -> e.tag

\* #[derive(Error)] Display: the #[error("...")] template of the variant
\* (the backquotes around token in WsInitTokenNotString are written as ')
Display(e) ==
    CASE e.tag = "Unauthenticated" -> "Unauthenticated"
      [] e.tag = "Unauthorized" -> "Unauthorized"
      [] e.tag = "CredentialsInvalid" -> "Credentials are invalid"
      [] e.tag = "HandleAlreadyExists" -> "Handle already exists"
      [] e.tag = "JwtMalformed" -> "JWT is malformed"
      [] e.tag = "JwtExpired" -> "JWT is expired"
      [] e.tag = "JwtInvalid" -> "JWT is invalid"
      [] e.tag = "WsInitNotObject" ->
            "GraphQL WebSocket init must be an object, null, or undefined"
      [] e.tag = "WsInitTokenNotString" ->
            "GraphQL WebSocket init 'token' must be a string or undefined"
      [] e.tag = "ServerMisconfigured" -> "The server is misconfigured"
      [] e.tag = "InternalServerError" -> "An internal server error occurred"
      [] e.tag = "NotImplemented" -> "Feature is not implemented yet"

\* #[derive(Debug)]: a unit variant prints its name, a tuple variant its
\* name and the quoted field (texts over Alphabet need no escaping)
DebugFmt(e) ==
    IF HasDetail(e) THEN e.tag \o "(\"" \o e.detail \o "\")" ELSE e.tag

\* code without the two arms for the detail-carrying variants
code_DebugForAll(e) == DebugFmt(e)

\* Error::code
code(e) ==
    CASE e.tag = "ServerMisconfigured" -> "ServerMisconfigured"
      [] e.tag = "InternalServerError" -> "InternalServerError"
      [] OTHER -> DebugFmt(e)

\* log with NotImplemented emitted as a warning
LogRecords_WarnNotImplemented(e) ==
    CASE e.tag = "ServerMisconfigured" ->
            <<[level |-> "ERROR", message |-> "Server misconfigured: " \o e.detail]>>
      [] e.tag = "InternalServerError" ->
            <<[level |-> "ERROR", message |-> "Internal server error: " \o e.detail]>>
      [] e.tag = "NotImplemented" ->
            <<[level |-> "WARN", message |-> "Unimplemented feature called"]>>
      [] OTHER -> <<>>

\* Error::log: the records the call emits through tracing
LogRecords(e) ==
    CASE e.tag = "ServerMisconfigured" ->
            <<[level |-> "ERROR", message |-> "Server misconfigured: " \o e.detail]>>
      [] e.tag = "InternalServerError" ->
            <<[level |-> "ERROR", message |-> "Internal server error: " \o e.detail]>>
      [] e.tag = "NotImplemented" ->
            <<[level |-> "ERROR", message |-> "Unimplemented feature called"]>>
      [] OTHER -> <<>>

----------------------------------------------------------------------------
(* Adapters *)

\* from_err building the other detail-carrying variant
from_err_Misconfigured(e) == ServerMisconfigured(e.display)

\* Error::from_err: err is any std::error::Error, read through to_string()
from_err(e) == InternalServerError(e.display)

\* impl From<String> for Error
FromString(s) == InternalServerError(s)

\* impl From<&String> for Error
FromRefString(s) == InternalServerError(s)

\* impl From<&str> for Error
FromStr(s) == InternalServerError(s)

\* jsonwebtoken::errors::ErrorKind
JwtUnitKinds ==
    {"InvalidToken", "InvalidSignature", "InvalidEcdsaKey", "RsaFailedSigning",
     "InvalidAlgorithmName", "InvalidKeyFormat", "ExpiredSignature",
     "InvalidIssuer", "InvalidAudience", "InvalidSubject", "ImmatureSignature",
     "InvalidAlgorithm", "MissingAlgorithm", "Base64", "Json", "Utf8", "Crypto"}

JwtError ==
    {[kind |-> k] : k \in JwtUnitKinds}
        \cup {[kind |-> "InvalidRsaKey", inner |-> t] : t \in Texts}

\* the adapter without its Crypto arm
FromJwtError_NoCryptoArm(e) ==
    CASE e.kind \in {"InvalidToken", "InvalidAlgorithmName", "InvalidKeyFormat"} ->
            Unit("JwtMalformed")
      [] e.kind = "InvalidEcdsaKey" -> ServerMisconfigured("EcDSA key invalid")
      [] e.kind = "InvalidRsaKey" ->
            ServerMisconfigured("RSA key is invalid: " \o e.inner)
      [] e.kind = "RsaFailedSigning" -> ServerMisconfigured("RSA signing failed")
      [] e.kind = "ExpiredSignature" -> Unit("JwtExpired")
      [] OTHER -> Unit("JwtInvalid")

\* the adapter without its ExpiredSignature arm
FromJwtError_NoExpiredArm(e) ==
    CASE e.kind \in {"InvalidToken", "InvalidAlgorithmName", "InvalidKeyFormat"} ->
            Unit("JwtMalformed")
      [] e.kind = "InvalidEcdsaKey" -> ServerMisconfigured("EcDSA key invalid")
      [] e.kind = "InvalidRsaKey" ->
            ServerMisconfigured("RSA key is invalid: " \o e.inner)
      [] e.kind = "RsaFailedSigning" -> ServerMisconfigured("RSA signing failed")
      [] e.kind = "Crypto" -> FromStr("JWT crypto error")
      [] OTHER -> Unit("JwtInvalid")

\* impl From<JwtError> for Error
FromJwtError(e) ==
    CASE e.kind \in {"InvalidToken", "InvalidAlgorithmName", "InvalidKeyFormat"} ->
            Unit("JwtMalformed")
      [] e.kind = "InvalidEcdsaKey" -> ServerMisconfigured("EcDSA key invalid")
      [] e.kind = "InvalidRsaKey" ->
            ServerMisconfigured("RSA key is invalid: " \o e.inner)
      [] e.kind = "RsaFailedSigning" -> ServerMisconfigured("RSA signing failed")
      [] e.kind = "ExpiredSignature" -> Unit("JwtExpired")
      [] e.kind = "Crypto" -> FromStr("JWT crypto error")
      [] OTHER -> Unit("JwtInvalid")

\* surrealdb::Error: Db(Ds(msg)) is the datastore-construction failure
SrlError ==
    {[layer |-> "Db", kind |-> k, msg |-> m] : k \in {"Ds", "Tx"}, m \in Texts}
        \cup {[layer |-> "Db", kind |-> "TxFinished", msg |-> ""]}
        \cup {[layer |-> "Api", kind |-> "Query", msg |-> m] : m \in Texts}

\* Display of a surrealdb::Error, as read by from_err
SrlDisplay(e) ==
    CASE e.layer = "Db" /\ e.kind = "Ds" ->
            "There was a problem with the underlying datastore: " \o e.msg
      [] e.layer = "Db" /\ e.kind = "Tx" ->
            "There was a problem with a datastore transaction: " \o e.msg
      [] e.layer = "Db" /\ e.kind = "TxFinished" ->
            "Couldn't update a finished transaction"
      [] OTHER -> "Query error: " \o e.msg

\* the adapter treating every Db failure as a misconfiguration
FromSrlError_AnyDb(e) ==
    IF e.layer = "Db" THEN ServerMisconfigured(e.msg)
    ELSE from_err([display |-> SrlDisplay(e)])

\* impl From<SrlError> for Error
FromSrlError(e) ==
    IF e.layer = "Db" /\ e.kind = "Ds" THEN ServerMisconfigured(e.msg)
    ELSE from_err([display |-> SrlDisplay(e)])

\* what made a ring verification fail; ring reports all of them as Unspecified
VerifyFailures == {"signature mismatch", "wrong key", "truncated input"}

\* the adapter reporting the cause as an internal error
FromUnspecified_KeepCause(cause) == InternalServerError(cause)

\* impl From<ring::error::Unspecified> for Error
FromUnspecified(cause) == Unit("CredentialsInvalid")

\* base64::DecodeError
Base64DecodeError ==
    {[kind |-> k, offset |-> o, byte |-> b] :
        k \in {"InvalidByte", "InvalidLastSymbol"}, o \in 0..MaxOffset, b \in {33, 61}}
        \cup {[kind |-> "InvalidLength", offset |-> 0, byte |-> 0]}

\* Display of a base64::DecodeError, as read by from_err
Base64Display(e) ==
    CASE e.kind = "InvalidByte" ->
            "Invalid byte " \o DecStr(e.byte) \o ", offset " \o DecStr(e.offset) \o "."
      [] e.kind = "InvalidLastSymbol" ->
            "Invalid last symbol " \o DecStr(e.byte) \o ", offset "
                \o DecStr(e.offset) \o "."
      [] OTHER -> "Encoded text cannot have a 6-bit remainder."

\* impl From<Base64DecodeError> for Error
FromBase64DecodeError(e) == from_err([display |-> Base64Display(e)])

----------------------------------------------------------------------------
(* Exit edges *)

\* the status match with JwtMalformed in the 401 arm
StatusOf_JwtMalformed401(e) ==
    CASE e.tag \in {"Unauthenticated", "CredentialsInvalid", "JwtExpired", "JwtInvalid",
                    "JwtMalformed"} -> 401
      [] e.tag = "Unauthorized" -> 403
      [] e.tag = "HandleAlreadyExists" -> 409
      [] e.tag \in {"WsInitNotObject", "WsInitTokenNotString"} -> 400
      [] e.tag \in {"ServerMisconfigured", "InternalServerError", "NotImplemented"} -> 500

\* the status match of impl From<Error> for ErrorResponse
StatusOf(e) ==
    CASE e.tag \in {"Unauthenticated", "CredentialsInvalid", "JwtExpired", "JwtInvalid"} -> 401
      [] e.tag = "Unauthorized" -> 403
      [] e.tag = "HandleAlreadyExists" -> 409
      [] e.tag \in {"JwtMalformed", "WsInitNotObject", "WsInitTokenNotString"} -> 400
      [] e.tag \in {"ServerMisconfigured", "InternalServerError", "NotImplemented"} -> 500

\* (StatusCode, Json<ErrorData>)
ErrorResponseOf(e) ==
    [status |-> StatusOf(e), data |-> [code |-> code(e), message |-> Display(e)]]

\* async_graphql::Error::new(self.to_string()).extend_with(.. "code" ..)
GraphqlErrorOf(e) ==
    [message |-> Display(e), extensions |-> [code |-> code(e)]]

----------------------------------------------------------------------------
(* One request flow: an error value is produced, crosses exit edges, ends. *)
(* origin  how the value was produced (adapter and its input)              *)
(* err     the Error value of the flow, None before one is produced        *)
(* moved   the value was consumed by the ErrorResponse conversion          *)
(* extends number of extend(&self) calls made on the value                 *)
(* log     records emitted through tracing during the flow                 *)
(* resp    the ErrorResponse handed to the HTTP transport                  *)
(* gql     the async_graphql::Error handed to the GraphQL transport        *)
(* prev    summary of the flow that ended last                             *)

NoOrigin == [adapter |-> "none"]

NoFlow == [adapter |-> "none", err |-> None, resp |-> None, gql |-> None]

Init ==
    /\ origin = NoOrigin
    /\ err = None
    /\ moved = FALSE
    /\ extends = 0
    /\ log = <<>>
    /\ resp = None
    /\ gql = None
    /\ prev = NoFlow

\* what a flow leaves untouched while it obtains its Error value
flowRest == <<moved, extends, log, resp, gql, prev>>

\* service code names a variant directly, e.g. Err(Error::Unauthenticated)
Construct ==
    /\ err = None
    /\ \E e \in Error :
        /\ origin' = [adapter |-> "variant", input |-> e]
        /\ err' = Some(e)
    /\ UNCHANGED flowRest

CallFromErr ==
    /\ err = None
    /\ \E t \in Texts :
        /\ origin' = [adapter |-> "from_err", input |-> [display |-> t]]
        /\ err' = Some(from_err([display |-> t]))
    /\ UNCHANGED flowRest

CallFromString ==
    /\ err = None
    /\ \E t \in Texts :
        /\ origin' = [adapter |-> "From<String>", input |-> t]
        /\ err' = Some(FromString(t))
    /\ UNCHANGED flowRest

CallFromRefString ==
    /\ err = None
    /\ \E t \in Texts :
        /\ origin' = [adapter |-> "From<&String>", input |-> t]
        /\ err' = Some(FromRefString(t))
    /\ UNCHANGED flowRest

CallFromStr ==
    /\ err = None
    /\ \E t \in Texts :
        /\ origin' = [adapter |-> "From<&str>", input |-> t]
        /\ err' = Some(FromStr(t))
    /\ UNCHANGED flowRest

CallFromJwtError ==
    /\ err = None
    /\ \E e \in JwtError :
        /\ origin' = [adapter |-> "From<JwtError>", input |-> e]
        /\ err' = Some(FromJwtError(e))
    /\ UNCHANGED flowRest

CallFromSrlError ==
    /\ err = None
    /\ \E e \in SrlError :
        /\ origin' = [adapter |-> "From<SrlError>", input |-> e]
        /\ err' = Some(FromSrlError(e))
    /\ UNCHANGED flowRest

CallFromUnspecified ==
    /\ err = None
    /\ \E c \in VerifyFailures :
        /\ origin' = [adapter |-> "From<Unspecified>", input |-> c]
        /\ err' = Some(FromUnspecified(c))
    /\ UNCHANGED flowRest

CallFromBase64DecodeError ==
    /\ err = None
    /\ \E e \in Base64DecodeError :
        /\ origin' = [adapter |-> "From<Base64DecodeError>", input |-> e]
        /\ err' = Some(FromBase64DecodeError(e))
    /\ UNCHANGED flowRest

\* ErrorExtensions::extend(&self): log, then build the GraphQL error
Extend ==
    /\ IsSome(err)
    /\ ~moved
    /\ extends < MaxExtend
    /\ log' = log \o LogRecords(Unwrap(err))
    /\ gql' = Some(GraphqlErrorOf(Unwrap(err)))
    /\ extends' = extends + 1
    /\ UNCHANGED <<origin, err, moved, resp, prev>>

\* ErrorResponse::from(err): log, then build the response; err is moved
IntoErrorResponse ==
    /\ IsSome(err)
    /\ ~moved
    /\ log' = log \o LogRecords(Unwrap(err))
    /\ resp' = Some(ErrorResponseOf(Unwrap(err)))
    /\ moved' = TRUE
    /\ UNCHANGED <<origin, err, extends, gql, prev>>

\* the request is answered; the next one starts with nothing in hand
EndFlow ==
    /\ IsSome(err)
    /\ prev' = [adapter |-> origin.adapter, err |-> err, resp |-> resp, gql |-> gql]
    /\ origin' = NoOrigin
    /\ err' = None
    /\ moved' = FALSE
    /\ extends' = 0
    /\ log' = <<>>
    /\ resp' = None
    /\ gql' = None

Next ==
    \/ Construct
    \/ CallFromErr
    \/ CallFromString
    \/ CallFromRefString
    \/ CallFromStr
    \/ CallFromJwtError
    \/ CallFromSrlError
    \/ CallFromUnspecified
    \/ CallFromBase64DecodeError
    \/ Extend
    \/ IntoErrorResponse
    \/ EndFlow

Spec == Init /\ [][Next]_vars

----------------------------------------------------------------------------
(* Properties *)

\* number of exit-edge operations applied to the flow's value so far
BoundaryOps == extends + (IF moved THEN 1 ELSE 0)

Notable(e) == e.tag \in {"ServerMisconfigured", "InternalServerError", "NotImplemented"}

\* the status table of the specification, section 4.2
TableStatus(tag) ==
    CASE tag \in {"Unauthenticated", "CredentialsInvalid", "JwtExpired", "JwtInvalid"} -> 401
      [] tag = "Unauthorized" -> 403
      [] tag = "HandleAlreadyExists" -> 409
      [] tag \in {"JwtMalformed", "WsInitNotObject", "WsInitTokenNotString"} -> 400
      [] tag \in {"ServerMisconfigured", "InternalServerError", "NotImplemented"} -> 500
      [] OTHER -> 0

\* C1: every ErrorResponse carries exactly the status the fixed table gives
\* for the variant of the converted error, whatever its detail text; two
\* responses for the same variant (this flow and the previous one) never
\* differ in status.
C1_StatusTable ==
    IsSome(resp) =>
        /\ Unwrap(resp).status = TableStatus(Unwrap(err).tag)
        /\ (IsSome(prev.resp) /\ Unwrap(prev.err).tag = Unwrap(err).tag)
                => Unwrap(prev.resp).status = Unwrap(resp).status

C1_Witness ==
    /\ IsSome(resp)
    /\ Unwrap(err) = ServerMisconfigured("se")
    /\ Unwrap(resp).status = 500
    /\ IsSome(prev.resp)
    /\ Unwrap(prev.err) = Unit("HandleAlreadyExists")
    /\ Unwrap(prev.resp).status = 409

\* C2 as stated: for a detail-carrying error the client-visible message at
\* either exit edge never contains the detail text as a substring.
C2_MessageNeverContainsDetail ==
    (IsSome(err) /\ HasDetail(Unwrap(err))) =>
        /\ IsSome(resp) => ~Contains(Unwrap(resp).data.message, Unwrap(err).detail)
        /\ IsSome(gql) => ~Contains(Unwrap(gql).message, Unwrap(err).detail)

FixedMessage(tag) ==
    IF tag = "ServerMisconfigured" THEN "The server is misconfigured"
    ELSE "An internal server error occurred"

\* C2 amended: for a detail-carrying error the client-visible message at
\* either exit edge is the fixed text of the variant, whatever the detail;
\* it contains the detail only when the detail already occurs in that fixed
\* text (the empty detail, for one).
C2_MessageIsFixedTemplate ==
    (IsSome(err) /\ HasDetail(Unwrap(err))) =>
        LET e == Unwrap(err)
            fixed == FixedMessage(e.tag)
        IN  /\ IsSome(resp) =>
                /\ Unwrap(resp).data.message = fixed
                /\ ~Contains(fixed, e.detail)
                        => ~Contains(Unwrap(resp).data.message, e.detail)
            /\ IsSome(gql) =>
                /\ Unwrap(gql).message = fixed
                /\ ~Contains(fixed, e.detail)
                        => ~Contains(Unwrap(gql).message, e.detail)

C2_Witness ==
    /\ IsSome(err) /\ IsSome(resp) /\ IsSome(gql)
    /\ Unwrap(err) = InternalServerError("es")
    /\ ~Contains(Unwrap(resp).data.message, "es")
    /\ ~Contains(Unwrap(gql).message, "es")

\* C3: once a notable error has crossed an exit edge, the flow holds
\* exactly one log record for it, and the value has not been logged by
\* both the extend hook and the ErrorResponse conversion.
C3_LoggedExactlyOnce ==
    (IsSome(err) /\ Notable(Unwrap(err)) /\ BoundaryOps > 0) =>
        /\ Len(log) = 1
        /\ ~(extends > 0 /\ moved)

NamedJwtKinds ==
    {"InvalidToken", "InvalidAlgorithmName", "InvalidKeyFormat", "InvalidEcdsaKey",
     "InvalidRsaKey", "RsaFailedSigning", "ExpiredSignature"}

\* C5 as stated: every token-library failure that is not invalid token,
\* algorithm name or key format, not an invalid EC or RSA key, not a signing
\* failure and not an expired signature becomes JwtInvalid, the generic
\* crypto-layer error (Crypto) included.
C5_CatchAllIsJwtInvalid ==
    (origin.adapter = "From<JwtError>" /\ origin.input.kind \notin NamedJwtKinds)
        => err = Some(Unit("JwtInvalid"))

\* C5 amended: every such failure other than Crypto becomes JwtInvalid;
\* Crypto becomes InternalServerError with the detail "JWT crypto error".
C5_CatchAllExceptCrypto ==
    origin.adapter = "From<JwtError>" =>
        /\ origin.input.kind \notin (NamedJwtKinds \cup {"Crypto"})
                => err = Some(Unit("JwtInvalid"))
        /\ origin.input.kind = "Crypto"
                => err = Some(InternalServerError("JWT crypto error"))

C5_Witness ==
    /\ origin.adapter = "From<JwtError>"
    /\ origin.input.kind = "Crypto"
    /\ err = Some(InternalServerError("JWT crypto error"))
    /\ prev.adapter = "From<JwtError>"
    /\ prev.err = Some(Unit("JwtInvalid"))

\* C6: the token-validation adapter gives every token-library failure an
\* Error value; an expired signature becomes JwtExpired; invalid key format,
\* algorithm name and token become JwtMalformed; an invalid EC key, an
\* invalid RSA key (whatever its inner text) and an RSA signing failure
\* become ServerMisconfigured.
C6_JwtClassification ==
    origin.adapter = "From<JwtError>" =>
        LET k == origin.input.kind
        IN  /\ IsSome(err)
            /\ Unwrap(err).tag \in UnitVariants \cup DetailVariants
            /\ k = "ExpiredSignature" => err = Some(Unit("JwtExpired"))
            /\ k \in {"InvalidKeyFormat", "InvalidAlgorithmName", "InvalidToken"}
                    => err = Some(Unit("JwtMalformed"))
            /\ k \in {"InvalidEcdsaKey", "InvalidRsaKey", "RsaFailedSigning"}
                    => Unwrap(err).tag = "ServerMisconfigured"

C6_Witness ==
    /\ origin.adapter = "From<JwtError>"
    /\ origin.input.kind = "InvalidRsaKey"
    /\ origin.input.inner = "se"
    /\ err = Some(ServerMisconfigured("RSA key is invalid: se"))
    /\ prev.adapter = "From<JwtError>"
    /\ prev.err = Some(Unit("JwtExpired"))

\* C7: a storage failure becomes ServerMisconfigured exactly when it is the
\* datastore-construction failure Db(Ds(msg)), and then carries msg; every
\* other storage failure becomes InternalServerError carrying the failure's
\* display text.
C7_StorageClassification ==
    origin.adapter = "From<SrlError>" =>
        LET i == origin.input
            isDs == i.layer = "Db" /\ i.kind = "Ds"
        IN  /\ IsSome(err)
            /\ (Unwrap(err).tag = "ServerMisconfigured") <=> isDs
            /\ isDs => err = Some(ServerMisconfigured(i.msg))
            /\ ~isDs => err = Some(InternalServerError(SrlDisplay(i)))

C7_Witness ==
    /\ origin.adapter = "From<SrlError>"
    /\ origin.input = [layer |-> "Db", kind |-> "Tx", msg |-> "se"]
    /\ Unwrap(err).tag = "InternalServerError"
    /\ Contains(Unwrap(err).detail, "transaction: se")
    /\ prev.adapter = "From<SrlError>"
    /\ prev.err = Some(ServerMisconfigured("es"))

TextAdapters == {"From<String>", "From<&String>", "From<&str>"}

\* C8: from_err gives InternalServerError whose detail is the display text
\* of the error, unchanged; From<String>, From<&String> and From<&str> give
\* InternalServerError whose detail is the text, unchanged; the base64
\* adapter gives InternalServerError whose detail is the display text of
\* the decode error.
C8_TextToInternalServerError ==
    /\ origin.adapter = "from_err"
            => err = Some(InternalServerError(origin.input.display))
    /\ origin.adapter \in TextAdapters
            => err = Some(InternalServerError(origin.input))
    /\ origin.adapter = "From<Base64DecodeError>"
            => err = Some(InternalServerError(Base64Display(origin.input)))

C8_Witness ==
    /\ origin.adapter = "From<Base64DecodeError>"
    /\ origin.input = [kind |-> "InvalidByte", offset |-> 1, byte |-> 61]
    /\ err = Some(InternalServerError("Invalid byte 61, offset 1."))
    /\ prev.adapter = "from_err"
    /\ prev.err = Some(InternalServerError("se"))

\* C9: a verification failure becomes CredentialsInvalid whatever caused
\* it; its response is 401 with code CredentialsInvalid and the fixed
\* message; two verification failures (this flow and the previous one) give
\* equal Error values and equal responses.
C9_VerificationFailuresUniform ==
    origin.adapter = "From<Unspecified>" =>
        /\ err = Some(Unit("CredentialsInvalid"))
        /\ IsSome(resp) =>
                Unwrap(resp) = [status |-> 401,
                                data |-> [code |-> "CredentialsInvalid",
                                          message |-> "Credentials are invalid"]]
        /\ IsSome(gql) =>
                Unwrap(gql) = [message |-> "Credentials are invalid",
                               extensions |-> [code |-> "CredentialsInvalid"]]
        /\ prev.adapter = "From<Unspecified>" =>
                /\ prev.err = err
                /\ (IsSome(prev.resp) /\ IsSome(resp)) => prev.resp = resp
                /\ (IsSome(prev.gql) /\ IsSome(gql)) => prev.gql = gql

C9_Witness ==
    /\ origin.adapter = "From<Unspecified>"
    /\ origin.input = "wrong key"
    /\ prev.adapter = "From<Unspecified>"
    /\ IsSome(resp) /\ IsSome(prev.resp)
    /\ IsSome(gql) /\ IsSome(prev.gql)
    /\ Unwrap(resp).status = 401

\* C10: at both exit edges the code is the bare variant name, so distinct
\* variants have distinct codes; two errors of the same variant (this flow
\* and the previous one), whatever their details, give the same status,
\* code and message in the ErrorResponse and the same GraphQL error.
C10_EnvelopeFromVariantAlone ==
    IsSome(err) =>
        LET e == Unwrap(err)
        IN  /\ IsSome(resp) => Unwrap(resp).data.code = e.tag
            /\ IsSome(gql) => Unwrap(gql).extensions.code = e.tag
            /\ IsSome(prev.err) =>
                LET p == Unwrap(prev.err)
                IN  /\ (IsSome(resp) /\ IsSome(prev.resp)) =>
                        /\ p.tag = e.tag => prev.resp = resp
                        /\ p.tag # e.tag
                                => Unwrap(prev.resp).data.code # Unwrap(resp).data.code
                    /\ (IsSome(gql) /\ IsSome(prev.gql)) =>
                        /\ p.tag = e.tag => prev.gql = gql
                        /\ p.tag # e.tag
                                => Unwrap(prev.gql).extensions.code
                                        # Unwrap(gql).extensions.code

C10_Witness ==
    /\ err = Some(InternalServerError("se"))
    /\ prev.err = Some(InternalServerError("es"))
    /\ IsSome(resp) /\ prev.resp = resp
    /\ IsSome(gql) /\ prev.gql = gql
    /\ Unwrap(resp).data.code = "InternalServerError"

====
